---- MODULE Spec2Model ----
(***************************************************************************)
(* Model of goldbach_plot.py: the prime sieve, the Goldbach pair           *)
(* enumerator, the coordinate enricher, the sum grouper and the            *)
(* GoldbachGUI handlers that drive them.                                   *)
(*                                                                         *)
(* Python values: a list or tuple is a sequence (1-based here, 0-based in  *)
(* the source), an optional integer is PyNone or PyInt(n), a dict is a     *)
(* function on its keys, and a call that may raise yields a record         *)
(* [exc, value].                                                           *)
(***************************************************************************)
EXTENDS Integers, Sequences, FiniteSets, TLC

VARIABLES
    pc,         \* position of the function harness: "call", then the function applied
    limit,      \* argument of sieve_of_eratosthenes
    primes,     \* the prime list (result of the sieve, argument of the others)
    max_sum,    \* argument of goldbachs_calculation: PyNone or PyInt(n)
    coords,     \* list of (prime1, y_sum, prime2) tuples
    enhanced,   \* list of (p1, p2, s, index1, index2, dup_count) tuples
    groups,     \* dict of group_by_sum: [keys, at]
    raised,     \* the exception that left the last harness call, or "none"
    sum_limit,  \* self.sum_limit: the text of the entry, a sequence of characters
    dimensions, \* self.dimensions: "2D" or "3D"
    x_axis,     \* self.x_axis
    y_axis,     \* self.y_axis
    z_axis,     \* self.z_axis
    show_lines, \* self.show_lines
    df,         \* self.df: [present, rows]
    fig,        \* self.fig: [present, dims, points, hover, lines, layout]
    csv_file,   \* the file at csv_path: the table last written to it
    html_file,  \* the file at html_path: the figure last written to it
    status_var, \* self.status_var
    calls       \* the calls the most recent generate made, in order

fvars == <<pc, limit, primes, max_sum, coords, enhanced, groups, raised>>

gvars == <<sum_limit, dimensions, x_axis, y_axis, z_axis, show_lines,
           df, fig, csv_file, html_file, status_var, calls>>

vars == <<fvars, gvars>>

-----------------------------------------------------------------------------
(* Bounds of the model *)

MaxLimit == 60

MinLimit == 5

MaxPrime == 13

-----------------------------------------------------------------------------
(* Python values *)

PyNone == <<>>

PyInt(n) == <<n>>

IsInt(v) == Len(v) = 1

IntOf(v) == v[1]

Unset == <<<<"unset">>>>

Range(s) == {s[k] : k \in DOMAIN s}

-----------------------------------------------------------------------------
(* Python control flow *)

\* for n in range(lo, hi + 1): st = body(st, n). The range is run as two
\* halves, the first evaluated in full before the second starts.
RECURSIVE ForRange(_, _, _, _)
ForRange(body(_, _), lo, hi, st) ==
    IF lo > hi THEN st
    ELSE IF lo = hi THEN body(st, lo)
    ELSE LET mid  == (lo + hi) \div 2
             half == ForRange(body, lo, mid, st)
         IN  IF DOMAIN half = DOMAIN half THEN ForRange(body, mid + 1, hi, half) ELSE half

\* result of a call: the exception that left it ("none" when it returned) and
\* the value returned
Returned(v) == [exc |-> "none", value |-> v]

Raised(e) == [exc |-> e, value |-> <<>>]

\* a loop body under try: once an exception is raised the remaining
\* iterations do not run
Try(st, next) == IF st.exc # "none" THEN st ELSE next

-----------------------------------------------------------------------------
(* sieve_of_eratosthenes, lines 55-77 *)

\* int(limit ** 0.5): the integer part of the square root
isqrt(n) == CHOOSE r \in 0..n : r * r <= n /\ (r + 1) * (r + 1) > n

outer_stop_no_plus1(lim) == isqrt(lim)

\* the exclusive stop of range(2, int(limit ** 0.5) + 1)
outer_stop(lim) == isqrt(lim) + 1

\* for multiple in range(num * num, limit + 1, num): is_prime[multiple] = False
mark_multiples(is_prime, num, lim) ==
    ForRange(LAMBDA ip, k : [ip EXCEPT ![num * num + k * num] = FALSE],
             0, (lim - num * num) \div num, is_prime)

\* for num in range(2, int(limit ** 0.5) + 1): if is_prime[num]: mark its multiples
sieve_outer(is_prime, lim) ==
    ForRange(LAMBDA ip, num : IF ip[num] THEN mark_multiples(ip, num, lim) ELSE ip,
             2, outer_stop(lim) - 1, is_prime)

\* for num in range(2, limit + 1): if is_prime[num]: primes.append(num)
sieve_collect(is_prime, lim) ==
    ForRange(LAMBDA acc, num : IF is_prime[num] THEN Append(acc, num) ELSE acc,
             2, lim, <<>>)

\* limit is an integer, so int(limit) is limit and nothing raises
sieve_of_eratosthenes(lim) ==
    IF lim < 2 THEN <<>>
    ELSE LET is_prime == [n \in 0..lim |-> n >= 2]
         IN  sieve_collect(sieve_outer(is_prime, lim), lim)

-----------------------------------------------------------------------------
(* goldbachs_calculation, lines 79-95 *)

include_ignoring_parity(y_sum, ms) == y_sum <= IntOf(ms)

include_below(y_sum, ms) == y_sum % 2 = 0 /\ y_sum < IntOf(ms)

\* the test of line 90 once max_sum is known to be an integer
include(y_sum, ms) == y_sum % 2 = 0 /\ y_sum <= IntOf(ms)

inner_start_zero(i) == 1

\* for j in range(i, len(primelist)): the first j
inner_start(i) == i

\* lines 87-91. With max_sum None the comparison y_sum <= max_sum raises
\* TypeError; it is evaluated only when y_sum is even (the and of line 90).
goldbach_inner(primelist, ms, i, st, j) ==
    LET prime1 == primelist[i]
        prime2 == primelist[j]
        y_sum  == prime1 + prime2
    IN  IF y_sum % 2 = 0 /\ ~IsInt(ms) THEN [st EXCEPT !.exc = "TypeError"]
        ELSE IF include(y_sum, ms)
             THEN [st EXCEPT !.value = Append(@, <<prime1, y_sum, prime2>>)]
             ELSE st

\* lines 83-86: the inner loop of one i
goldbach_outer(primelist, ms, st, i) ==
    ForRange(LAMBDA s, j : Try(s, goldbach_inner(primelist, ms, i, s, j)),
             inner_start(i), Len(primelist), st)

\* The except clause of line 92 catches the exception and line 95 returns
\* the coords appended before it.
goldbachs_calculation(primelist, ms) ==
    ForRange(LAMBDA s, i : Try(s, goldbach_outer(primelist, ms, s, i)),
             1, Len(primelist), Returned(<<>>)).value

-----------------------------------------------------------------------------
(* enhance_coordinates, lines 97-115 *)

\* d[key] = v on a dict held as a function
SetItem(d, key, v) == [q \in DOMAIN d \cup {key} |-> IF q = key THEN v ELSE d[q]]

\* {p: i+1 for i, p in enumerate(primes)}: a later occurrence of p overwrites
\* an earlier one (i is 1-based here, so i is the source's i+1)
prime_to_index(pl) ==
    ForRange(LAMBDA d, i : SetItem(d, pl[i], i), 1, Len(pl), <<>>)

\* sum_counts[s] += 1 on a defaultdict(int)
increment(d, s) == IF s \in DOMAIN d THEN [d EXCEPT ![s] = @ + 1] ELSE SetItem(d, s, 1)

\* sum_counts after the loop of lines 104-105
sum_counts(cs) == ForRange(LAMBDA d, k : increment(d, cs[k][2]), 1, Len(cs), <<>>)

lookup_or_zero(index, p) == IF p \in DOMAIN index THEN Returned(index[p]) ELSE Returned(0)

\* prime_to_index[p]: KeyError when p is no key
lookup(index, p) == IF p \in DOMAIN index THEN Returned(index[p]) ELSE Raised("KeyError")

enhanced_tuple_swapped(p1, s, p2, index1, index2, dup_count) ==
    <<p1, p2, s, index2, index1, dup_count>>

\* the tuple appended at line 113
enhanced_tuple(p1, s, p2, index1, index2, dup_count) ==
    <<p1, p2, s, index1, index2, dup_count>>

\* lines 110-113 for the k-th tuple of coords
enhance_body(cs, index, counts, st, k) ==
    LET p1 == cs[k][1]
        s  == cs[k][2]
        p2 == cs[k][3]
        index1 == lookup(index, p1)
        index2 == lookup(index, p2)
    IN  IF index1.exc # "none" THEN Raised(index1.exc)
        ELSE IF index2.exc # "none" THEN Raised(index2.exc)
        ELSE [st EXCEPT !.value = Append(@, enhanced_tuple(p1, s, p2, index1.value,
                                                           index2.value, counts[s]))]

\* No try block: an exception leaves the function, and the list built so far
\* goes with its frame.
enhance_coordinates(cs, pl) ==
    LET index  == prime_to_index(pl)
        counts == sum_counts(cs)
    IN  ForRange(LAMBDA st, k : Try(st, enhance_body(cs, index, counts, st, k)),
                 1, Len(cs), Returned(<<>>))

-----------------------------------------------------------------------------
(* group_by_sum, lines 117-129 *)

\* a dict with insertion order: its keys in the order they were first set,
\* and the value at each key
EmptyDict == [keys |-> <<>>, at |-> <<>>]

\* d.values(), in insertion order
Values(d) == [n \in DOMAIN d.keys |-> d.at[d.keys[n]]]

put_overwriting(d, s, coord) ==
    IF s \in DOMAIN d.at
    THEN [d EXCEPT !.at[s] = <<coord>>]
    ELSE [keys |-> Append(d.keys, s), at |-> SetItem(d.at, s, <<coord>>)]

\* if s not in groups: groups[s] = []; groups[s].append(coord)
put(d, s, coord) ==
    IF s \in DOMAIN d.at
    THEN [d EXCEPT !.at[s] = Append(@, coord)]
    ELSE [keys |-> Append(d.keys, s), at |-> SetItem(d.at, s, <<coord>>)]

\* coord[2] and the dict operations on integer keys raise nothing
group_by_sum(enhanced_coords) ==
    ForRange(LAMBDA d, k : put(d, enhanced_coords[k][3], enhanced_coords[k]),
             1, Len(enhanced_coords), EmptyDict)

-----------------------------------------------------------------------------
(* GoldbachGUI, lines 131-499 *)

\* self.axis_vars, line 149
axis_vars == {"Prime1", "Prime2", "Sum", "Index1", "Index2", "DuplicateCount"}

\* axis_map of lines 297-304 and 323-330, as 1-based tuple positions
axis_map ==
    [a \in axis_vars |->
        CASE a = "Prime1" -> 1
          [] a = "Prime2" -> 2
          [] a = "Sum" -> 3
          [] a = "Index1" -> 4
          [] a = "Index2" -> 5
          [] a = "DuplicateCount" -> 6]

DigitChars == <<"0", "1", "2", "3", "4", "5", "6", "7", "8", "9">>

IsDigit(c) == \E k \in DOMAIN DigitChars : DigitChars[k] = c

DigitOf(c) == (CHOOSE k \in DOMAIN DigitChars : DigitChars[k] = c) - 1

RECURSIVE parse_digits(_, _)
parse_digits(text, acc) ==
    IF text = <<>> THEN acc
    ELSE parse_digits(Tail(text), 10 * acc + DigitOf(Head(text)))

\* tk.IntVar.get() at line 354: the entry's text as an integer, TclError when
\* the text is no number
intvar_get(text) ==
    LET body == IF text # <<>> /\ Head(text) = "-" THEN Tail(text) ELSE text
    IN  IF body = <<>> \/ \E k \in DOMAIN body : ~IsDigit(body[k])
        THEN Raised("TclError")
        ELSE IF text[1] = "-" THEN Returned(0 - parse_digits(body, 0))
        ELSE Returned(parse_digits(body, 0))

\* the (x, y, z) tuple of one coordinate, lines 314-318 and 340-344
project(coord, x_assign, y_assign, z_assign) ==
    <<coord[x_assign], coord[y_assign], IF z_assign # 0 THEN coord[z_assign] ELSE 0>>

\* transform_coordinates, lines 295-319: KeyError when an axis variable holds
\* no key of axis_map; the z axis is looked up in 3D only (0 stands for None)
transform_coordinates(cs, x, y, z, dim) ==
    IF x \notin DOMAIN axis_map \/ y \notin DOMAIN axis_map
       \/ (dim = "3D" /\ z \notin DOMAIN axis_map)
    THEN Raised("KeyError")
    ELSE LET x_assign == axis_map[x]
             y_assign == axis_map[y]
             z_assign == IF dim = "3D" THEN axis_map[z] ELSE 0
         IN  Returned([k \in DOMAIN cs |-> project(cs[k], x_assign, y_assign, z_assign)])

\* transform_group_coordinates, lines 321-345: the same lookup and projection
transform_group_coordinates(group, x, y, z, dim) ==
    IF x \notin DOMAIN axis_map \/ y \notin DOMAIN axis_map
       \/ (dim = "3D" /\ z \notin DOMAIN axis_map)
    THEN Raised("KeyError")
    ELSE LET x_assign == axis_map[x]
             y_assign == axis_map[y]
             z_assign == IF dim = "3D" THEN axis_map[z] ELSE 0
         IN  Returned([k \in DOMAIN group |-> project(group[k], x_assign, y_assign, z_assign)])

\* the data of a scatter trace: x, y and z in 3D (lines 403-412, 440-448), x
\* and y in 2D (lines 415-423, 451-458)
trace_point(p, dim) == IF dim = "3D" THEN p ELSE <<p[1], p[2]>>

all_pairs_lines(tg, dim) ==
    LET ij == {p \in (DOMAIN tg) \X (DOMAIN tg) : p[1] < p[2]}
        rank(p) == Cardinality({q \in ij : q[1] < p[1] \/ (q[1] = p[1] /\ q[2] < p[2])}) + 1
    IN  [n \in 1..Cardinality(ij) |->
            LET p == CHOOSE q \in ij : rank(q) = n
            IN  <<trace_point(tg[p[1]], dim), trace_point(tg[p[2]], dim)>>]

\* for i in range(len(transformed_group) - 1): one line trace from
\* transformed_group[i] to transformed_group[i + 1], lines 434-458
group_lines(tg, dim) ==
    [i \in 1..(Len(tg) - 1) |-> <<trace_point(tg[i], dim), trace_point(tg[i + 1], dim)>>]

\* lines 429-458 for one group: a group of one record adds no trace
connection_body(gs, x, y, z, self_dim, dim, st, n) ==
    IF Len(gs[n]) > 1
    THEN LET tg == transform_group_coordinates(gs[n], x, y, z, self_dim)
         IN  IF tg.exc # "none" THEN [st EXCEPT !.exc = tg.exc]
             ELSE [st EXCEPT !.value = @ \o group_lines(tg.value, dim)]
    ELSE st

\* the loop of lines 428-458 over groups.values(): the line traces added to
\* the figure, in order. self_dim is self.dimensions as
\* transform_group_coordinates reads it, dim the local of line 355.
connection_lines(gs, x, y, z, self_dim, dim) ==
    ForRange(LAMBDA st, n : Try(st, connection_body(gs, x, y, z, self_dim, dim, st, n)),
             1, Len(gs), Returned(<<>>))

NoTable == [present |-> FALSE, rows |-> <<>>]

NoFigure == [present |-> FALSE, dims |-> "", points |-> <<>>, hover |-> <<>>,
             lines |-> <<>>, layout |-> <<>>]

\* layout_config of lines 461-480: the title's sum limit and the axis titles
layout_config(sum_limit_val, x, y, z, dim) ==
    IF dim = "3D" THEN <<PyInt(sum_limit_val), x, y, z>> ELSE <<PyInt(sum_limit_val), x, y>>

\* the figure of lines 391-480: the marker trace with its hover texts (one
\* per enhanced record, naming its six fields), the line traces, the layout
Figure(transformed, ecs, lines, layout, dim) ==
    [present |-> TRUE, dims |-> dim,
     points |-> [k \in DOMAIN transformed |-> trace_point(transformed[k], dim)],
     hover |-> ecs, lines |-> lines, layout |-> layout]

\* the state after __init__, lines 132-227
GuiInit ==
    /\ sum_limit = <<"1", "0", "0">>
    /\ dimensions = "3D"
    /\ x_axis = "Prime1"
    /\ y_axis = "Sum"
    /\ z_axis = "Prime2"
    /\ show_lines = TRUE
    /\ df = NoTable
    /\ fig = NoFigure
    /\ csv_file = NoTable
    /\ html_file = NoFigure
    /\ status_var = "Ready"
    /\ calls = <<>>

LogEnhanced == <<"generate", "sieve_of_eratosthenes", "goldbachs_calculation",
                 "enhance_coordinates">>

LogTransformed == LogEnhanced \o <<"to_csv", "transform_coordinates">>

config == <<sum_limit, dimensions, x_axis, y_axis, z_axis, show_lines>>

\* generate from line 383 on, with the table in self.df and saved: en is
\* enhanced_coords, dim the local dimensions of line 355, and html_saved
\* tells whether create_directory (483) and save_plot (485) both succeed
GenerateFigure(sum_limit_val, dim, en) ==
    \E transformed \in {transform_coordinates(en, x_axis, y_axis, z_axis, dimensions)} :
        IF transformed.exc # "none"
        THEN /\ status_var' = "Error: KeyError"
             /\ calls' = LogTransformed
             /\ UNCHANGED <<fig, html_file>>
        ELSE \E lines \in {IF show_lines
                           THEN connection_lines(Values(group_by_sum(en)),
                                                 x_axis, y_axis, z_axis, dimensions, dim)
                           ELSE Returned(<<>>)} :
                IF lines.exc # "none"
                THEN /\ fig' = Figure(transformed.value, en, lines.value, <<>>, dim)
                     /\ status_var' = "Error: KeyError"
                     /\ calls' = LogTransformed \o <<"go.Figure">>
                     /\ UNCHANGED html_file
                ELSE /\ fig' = Figure(transformed.value, en, lines.value,
                                      layout_config(sum_limit_val, x_axis, y_axis, z_axis,
                                                    dim),
                                      dim)
                     /\ \E html_saved \in BOOLEAN :
                           IF html_saved
                           THEN /\ html_file' = fig'
                                /\ status_var' = "Visualization completed successfully!"
                                /\ calls' = LogTransformed
                                            \o <<"go.Figure", "write_html", "plot">>
                           ELSE /\ status_var' = "Creating visualization..."
                                /\ calls' = LogTransformed \o <<"go.Figure">>
                                /\ UNCHANGED html_file

\* generate, lines 347-499. csv_saved tells whether create_directory (378)
\* and save_dataframe (380) both succeed; generate returns at the first that
\* fails. An exception raised inside the try block ends the handler in the
\* except clause of line 496. (\E v \in {e} names the value of e.)
Generate ==
    /\ UNCHANGED config
    /\ UNCHANGED fvars
    /\ \E got \in {intvar_get(sum_limit)} :
          IF got.exc # "none"
          THEN /\ status_var' = "Error: TclError"
               /\ calls' = <<"generate">>
               /\ UNCHANGED <<df, fig, csv_file, html_file>>
          ELSE \E ps \in {sieve_of_eratosthenes(got.value)} :
                  IF ps = <<>>
                  THEN /\ status_var' = "Error: No primes generated"
                       /\ calls' = <<"generate", "sieve_of_eratosthenes">>
                       /\ UNCHANGED <<df, fig, csv_file, html_file>>
                  ELSE \E en \in {enhance_coordinates(
                                     goldbachs_calculation(ps, PyInt(got.value)), ps)} :
                          IF en.exc # "none"
                          THEN /\ status_var' = "Error: KeyError"
                               /\ calls' = LogEnhanced
                               /\ UNCHANGED <<df, fig, csv_file, html_file>>
                          ELSE /\ df' = [present |-> TRUE, rows |-> en.value]
                               /\ \E csv_saved \in BOOLEAN :
                                     IF ~csv_saved
                                     THEN /\ status_var' = "Calculating Goldbach pairs..."
                                          /\ calls' = LogEnhanced
                                          /\ UNCHANGED <<fig, csv_file, html_file>>
                                     ELSE /\ csv_file' = df'
                                          /\ GenerateFigure(got.value, dimensions,
                                                            en.value)

\* save_csv, lines 269-280: csv_saved tells whether create_directory and
\* save_dataframe both succeed
SaveCsv ==
    /\ IF ~df.present
       THEN UNCHANGED <<csv_file, status_var>>
       ELSE \E csv_saved \in BOOLEAN :
               IF csv_saved
               THEN /\ csv_file' = df
                    /\ status_var' = "CSV saved"
               ELSE UNCHANGED <<csv_file, status_var>>
    /\ UNCHANGED <<config, df, fig, html_file, calls>>
    /\ UNCHANGED fvars

\* GoldbachGUI.save_plot, lines 282-293: html_saved tells whether
\* create_directory and save_plot both succeed
SavePlot ==
    /\ IF ~fig.present
       THEN UNCHANGED <<html_file, status_var>>
       ELSE \E html_saved \in BOOLEAN :
               IF html_saved
               THEN /\ html_file' = fig
                    /\ status_var' = "Plot saved"
               ELSE UNCHANGED <<html_file, status_var>>
    /\ UNCHANGED <<config, df, fig, csv_file, calls>>
    /\ UNCHANGED fvars

results == <<df, fig, csv_file, html_file, status_var, calls>>

\* texts typed into the sum-limit entry of line 164
SumLimitTexts == {<<"a", "b", "c">>, <<"-", "5">>, <<"1">>, <<"1", "0", "0">>}

\* settings of the axis variables: names of axis_vars and a name outside them
AxisSettings == {<<"x", "Prime1">>, <<"x", "Other">>}

\* the entry of line 164 writes its text to self.sum_limit
SetSumLimit(text) ==
    /\ sum_limit' = text
    /\ UNCHANGED <<dimensions, x_axis, y_axis, z_axis, show_lines>>
    /\ UNCHANGED results
    /\ UNCHANGED fvars

\* the combobox of lines 168-171 writes self.dimensions
SetDimensions(dim) ==
    /\ dimensions' = dim
    /\ UNCHANGED <<sum_limit, x_axis, y_axis, z_axis, show_lines>>
    /\ UNCHANGED results
    /\ UNCHANGED fvars

\* the checkbutton of line 176 writes self.show_lines
SetShowLines(b) ==
    /\ show_lines' = b
    /\ UNCHANGED <<sum_limit, dimensions, x_axis, y_axis, z_axis>>
    /\ UNCHANGED results
    /\ UNCHANGED fvars

\* self.x_axis.set(v), self.y_axis.set(v), self.z_axis.set(v): the readonly
\* comboboxes of lines 184-196 offer the names of axis_vars; the variables
\* themselves hold any string set on them
SetAxis(axis, v) ==
    /\ x_axis' = IF axis = "x" THEN v ELSE x_axis
    /\ y_axis' = IF axis = "y" THEN v ELSE y_axis
    /\ z_axis' = IF axis = "z" THEN v ELSE z_axis
    /\ UNCHANGED <<sum_limit, dimensions, show_lines>>
    /\ UNCHANGED results
    /\ UNCHANGED fvars

Init ==
    /\ pc = "gui"
    /\ limit = 0
    /\ primes = <<>>
    /\ max_sum = PyNone
    /\ coords = <<>>
    /\ enhanced = Unset
    /\ groups = EmptyDict
    /\ raised = "none"
    /\ GuiInit

Next ==
    \/ \E text \in SumLimitTexts : SetSumLimit(text)
    \/ \E dim \in {"2D", "3D"} : SetDimensions(dim)
    \/ \E b \in BOOLEAN : SetShowLines(b)
    \/ \E a \in AxisSettings : SetAxis(a[1], a[2])
    \/ Generate
    \/ SaveCsv
    \/ SavePlot

Spec == Init /\ [][Next]_vars

-----------------------------------------------------------------------------
(* The function harness: inputs drawn from bounded sets, one call per action *)

IsPrime(n) == n >= 2 /\ \A d \in 2..(n - 1) : n % d # 0

RECURSIVE SortedSeq(_)
SortedSeq(S) ==
    IF S = {} THEN <<>>
    ELSE LET m == CHOOSE x \in S : \A y \in S : x <= y
         IN  <<m>> \o SortedSeq(S \ {m})

PrimeLists == {SortedSeq(S) : S \in SUBSET {p \in 2..MaxPrime : IsPrime(p)}}

MaxSums == {PyNone} \cup {PyInt(n) : n \in (0 - 1)..(2 * MaxPrime + 1)}

InitSieve ==
    /\ pc = "call"
    /\ limit \in (0 - MinLimit)..MaxLimit
    /\ primes = <<>>
    /\ max_sum = PyNone
    /\ coords = <<>>
    /\ enhanced = Unset
    /\ groups = EmptyDict
    /\ raised = "none"
    /\ GuiInit

CallSieve ==
    /\ pc = "call"
    /\ pc' = "sieve"
    /\ primes' = sieve_of_eratosthenes(limit)
    /\ UNCHANGED <<limit, max_sum, coords, enhanced, groups, raised>>
    /\ UNCHANGED gvars

NextSieve == CallSieve

SpecSieve == InitSieve /\ [][NextSieve]_vars

InitPairs ==
    /\ pc = "call"
    /\ limit = 0
    /\ primes \in PrimeLists
    /\ max_sum \in MaxSums
    /\ coords = <<>>
    /\ enhanced = Unset
    /\ groups = EmptyDict
    /\ raised = "none"
    /\ GuiInit

CallGoldbach ==
    /\ pc = "call"
    /\ pc' = "goldbach"
    /\ coords' = goldbachs_calculation(primes, max_sum)
    /\ UNCHANGED <<limit, primes, max_sum, enhanced, groups, raised>>
    /\ UNCHANGED gvars

NextPairs == CallGoldbach

SpecPairs == InitPairs /\ [][NextPairs]_vars

\* pair lists as the enumerator produces them, from any of the prime lists
PairLists == {goldbachs_calculation(pl, PyInt(m)) : pl \in PrimeLists, m \in {10, 2 * MaxPrime}}

InitEnrich ==
    /\ pc = "call"
    /\ limit = 0
    /\ primes \in PrimeLists
    /\ max_sum = PyNone
    /\ coords \in PairLists
    /\ enhanced = Unset
    /\ groups = EmptyDict
    /\ raised = "none"
    /\ GuiInit

CallEnhance ==
    /\ pc = "call"
    /\ LET r == enhance_coordinates(coords, primes)
       IN  IF r.exc = "none"
           THEN /\ pc' = "enhance"
                /\ enhanced' = r.value
                /\ UNCHANGED raised
           ELSE /\ pc' = "failed"
                /\ raised' = r.exc
                /\ UNCHANGED enhanced
    /\ UNCHANGED <<limit, primes, max_sum, coords, groups>>
    /\ UNCHANGED gvars

CallGroup ==
    /\ pc = "enhance"
    /\ pc' = "group"
    /\ groups' = group_by_sum(enhanced)
    /\ UNCHANGED <<limit, primes, max_sum, coords, enhanced, raised>>
    /\ UNCHANGED gvars

NextEnrich == CallEnhance \/ CallGroup

SpecEnrich == InitEnrich /\ [][NextEnrich]_vars

-----------------------------------------------------------------------------
(* Claims about sieve_of_eratosthenes *)

StrictlyAscending(s) == \A k \in 1..(Len(s) - 1) : s[k] < s[k + 1]

\* C1: for every integer limit, sieve_of_eratosthenes(limit) is exactly the
\* primes p with 2 <= p <= limit: only primes, every prime <= limit exactly
\* once, strictly ascending, and empty whenever limit < 2.
C1_SieveExact ==
    pc = "sieve" =>
        /\ \A k \in DOMAIN primes :
              /\ 2 <= primes[k] /\ primes[k] <= limit
              /\ \A d \in 2..(primes[k] - 1) : primes[k] % d # 0
        /\ \A p \in 2..limit :
              IsPrime(p) => Cardinality({k \in DOMAIN primes : primes[k] = p}) = 1
        /\ StrictlyAscending(primes)
        /\ (limit < 2 => primes = <<>>)

C1_Witness ==
    /\ pc = "sieve"
    /\ limit = 50
    /\ Len(primes) = 15
    /\ primes[15] = 47

-----------------------------------------------------------------------------
(* Claims about goldbachs_calculation *)

\* the (prime1, prime2, sum) record of a coords tuple (prime1, y_sum, prime2)
PairRecord(c) == <<c[1], c[3], c[2]>>

\* the index pairs (i, j), i <= j, whose sum is even (1-based)
EvenPairs(pl) ==
    {ij \in (DOMAIN pl) \X (DOMAIN pl) :
        ij[1] <= ij[2] /\ (pl[ij[1]] + pl[ij[2]]) % 2 = 0}

\* those of them whose sum is at most the ceiling m
PairsUpTo(pl, m) == {ij \in EvenPairs(pl) : pl[ij[1]] + pl[ij[2]] <= m}

LexBefore(a, b) == a[1] < b[1] \/ (a[1] = b[1] /\ a[2] < b[2])

\* position of the index pair ij among the pairs E in nested-loop order
LoopRank(E, ij) == Cardinality({e \in E : LexBefore(e, ij)}) + 1

\* coords holds exactly one tuple per index pair of E, in nested-loop order
IsEnumerationOf(cs, pl, E) ==
    /\ Len(cs) = Cardinality(E)
    /\ \A ij \in E :
          cs[LoopRank(E, ij)] = <<pl[ij[1]], pl[ij[1]] + pl[ij[2]], pl[ij[2]]>>

\* C2: with an integer max_sum every returned record has prime1 <= prime2,
\* both in primes, sum = prime1 + prime2, sum even and sum <= max_sum; the
\* prime 2 appears only in (2, 2, 4).
C2_RecordsValid ==
    (pc = "goldbach" /\ IsInt(max_sum)) =>
        \A k \in DOMAIN coords :
            LET r == PairRecord(coords[k])
            IN  /\ r[1] <= r[2]
                /\ r[1] \in Range(primes)
                /\ r[2] \in Range(primes)
                /\ r[3] = r[1] + r[2]
                /\ r[3] % 2 = 0
                /\ r[3] <= IntOf(max_sum)
                /\ ((r[1] = 2 \/ r[2] = 2) => r = <<2, 2, 4>>)

C2_Witness ==
    /\ pc = "goldbach"
    /\ primes = <<2, 3, 5, 7, 11>>
    /\ max_sum = PyInt(12)
    /\ Len(coords) = 6
    /\ coords[1] = <<2, 4, 2>>

\* C3: with an integer max_sum the output is complete and ordered: each index
\* pair (i, j), i <= j, with an even sum <= max_sum yields exactly one record,
\* no (prime1, prime2) pair appears twice, and the records are in nested-loop
\* order.
C3_CompleteOrdered ==
    (pc = "goldbach" /\ IsInt(max_sum)) =>
        /\ IsEnumerationOf(coords, primes, PairsUpTo(primes, IntOf(max_sum)))
        /\ \A k, l \in DOMAIN coords :
              (coords[k][1] = coords[l][1] /\ coords[k][3] = coords[l][3]) => k = l

C3_Witness ==
    /\ pc = "goldbach"
    /\ primes = <<3, 5, 7, 11, 13>>
    /\ max_sum = PyInt(16)
    /\ coords = << <<3, 6, 3>>, <<3, 8, 5>>, <<3, 10, 7>>, <<3, 14, 11>>,
                   <<3, 16, 13>>, <<5, 10, 5>>, <<5, 12, 7>>, <<5, 16, 11>>,
                   <<7, 14, 7>> >>

\* C4: with max_sum None no ceiling applies: the record of the index pair
\* (i, j), i <= j, is included if and only if primes[i] + primes[j] is even.
C4_NoCeiling ==
    (pc = "goldbach" /\ max_sum = PyNone) =>
        IsEnumerationOf(coords, primes, EvenPairs(primes))

GoldenSix ==
    {<<2, 2, 4>>, <<3, 5, 8>>, <<3, 7, 10>>, <<5, 5, 10>>, <<5, 7, 12>>, <<7, 7, 14>>}

GoldenSeven == GoldenSix \cup {<<3, 3, 6>>}

-----------------------------------------------------------------------------
(* Claims about enhance_coordinates and group_by_sum *)

\* position of p in the strictly increasing list pl, counting from 1
PositionOf(pl, p) == Cardinality({q \in Range(pl) : q <= p})

ReferencesOnly(cs, pl) ==
    \A k \in DOMAIN cs : cs[k][1] \in Range(pl) /\ cs[k][3] \in Range(pl)

DistinctSums(cs) == {cs[k][2] : k \in DOMAIN cs}

\* the first record carrying each distinct sum
Representatives(ecs) ==
    {k \in DOMAIN ecs : \A l \in DOMAIN ecs : ecs[l][3] = ecs[k][3] => k <= l}

RECURSIVE SumOver(_, _)
SumOver(S, f) ==
    IF S = {} THEN 0
    ELSE LET x == CHOOSE y \in S : TRUE IN f[x] + SumOver(S \ {x}, f)

\* C6: for a pair list drawn from the prime list, enhance_coordinates returns
\* a list of the same length and order whose k-th record carries the k-th
\* pair's prime1, prime2 and sum, the 1-based positions of both primes, and
\* the number of input pairs having that sum; duplicateCount summed over one
\* representative per distinct sum is the number of records.
C6_Enriched ==
    pc = "enhance" =>
        /\ Len(enhanced) = Len(coords)
        /\ \A k \in DOMAIN coords :
              /\ enhanced[k][1] = coords[k][1]
              /\ enhanced[k][2] = coords[k][3]
              /\ enhanced[k][3] = coords[k][2]
              /\ enhanced[k][4] = PositionOf(primes, coords[k][1])
              /\ enhanced[k][5] = PositionOf(primes, coords[k][3])
              /\ primes[enhanced[k][4]] = coords[k][1]
              /\ primes[enhanced[k][5]] = coords[k][3]
              /\ enhanced[k][6] =
                    Cardinality({l \in DOMAIN coords : coords[l][2] = coords[k][2]})
        /\ SumOver(Representatives(enhanced), [k \in DOMAIN enhanced |-> enhanced[k][6]])
              = Len(enhanced)

C6_Witness ==
    /\ pc = "enhance"
    /\ primes = <<2, 3, 5, 7>>
    /\ Len(coords) = 7
    /\ enhanced[4] = <<3, 7, 10, 2, 4, 2>>

\* C7: when a pair references a prime1 or prime2 absent from primes the call
\* raises a lookup error (KeyError) and returns nothing: no enriched list,
\* partial or with a default index, comes back.
C7_LookupError ==
    (pc \in {"enhance", "failed"} /\ ~ReferencesOnly(coords, primes)) =>
        /\ pc = "failed"
        /\ raised = "KeyError"
        /\ enhanced = Unset

C7_Witness ==
    /\ pc = "failed"
    /\ primes = <<3, 5>>
    /\ coords = << <<3, 6, 3>>, <<3, 10, 7>> >>
    /\ raised = "KeyError"

\* the subsequence of s whose sum field is key
RECURSIVE SelectSum(_, _)
SelectSum(s, key) ==
    IF s = <<>> THEN <<>>
    ELSE (IF Head(s)[3] = key THEN <<Head(s)>> ELSE <<>>) \o SelectSum(Tail(s), key)

RECURSIVE Concat(_)
Concat(ss) == IF ss = <<>> THEN <<>> ELSE Head(ss) \o Concat(Tail(ss))

Occurrences(s, x) == Cardinality({k \in DOMAIN s : s[k] = x})

\* C8: group_by_sum maps each key s to exactly the records whose sum is s, in
\* input order; every record lands in exactly one group, so the groups
\* concatenated hold the input's records, each as often as the input.
C8_Grouped ==
    pc = "group" =>
        /\ \A n, m \in DOMAIN groups.keys : groups.keys[n] = groups.keys[m] => n = m
        /\ Range(groups.keys) = DOMAIN groups.at
        /\ DOMAIN groups.at = {enhanced[k][3] : k \in DOMAIN enhanced}
        /\ \A s \in DOMAIN groups.at : groups.at[s] = SelectSum(enhanced, s)
        /\ LET all == Concat(Values(groups))
           IN  /\ Len(all) = Len(enhanced)
               /\ \A k \in DOMAIN enhanced :
                     Occurrences(all, enhanced[k]) = Occurrences(enhanced, enhanced[k])

C8_Witness ==
    /\ pc = "group"
    /\ Len(enhanced) = 7
    /\ groups.keys = <<4, 6, 8, 10, 12, 14>>
    /\ groups.at[10] = << <<3, 7, 10, 2, 4, 2>>, <<5, 5, 10, 3, 3, 2>> >>

-----------------------------------------------------------------------------
(* Claims about GoldbachGUI.generate *)

\* generate ended in a validation failure: the sum limit is no number
\* (TclError), yields no prime (non-positive or < 2), or an axis variable
\* names no field (KeyError)
ValidationFailed ==
    status_var \in {"Error: TclError", "Error: No primes generated", "Error: KeyError"}

Indices(f) == [k \in DOMAIN f.hover |-> k]

\* the line traces a path per sum-group puts into figure f: for each sum, in
\* the order the sums first appear, one segment from each record of that sum
\* to the next record of that sum, and nothing for a sum with one record
HasPathLines(f) ==
    \A sums \in {{f.hover[k][3] : k \in DOMAIN f.hover}} :
    \A members \in {[s \in sums |-> SelectSeq(Indices(f), LAMBDA k : f.hover[k][3] = s)]} :
    \A before \in {[s \in sums |->
                      Cardinality({k \in DOMAIN f.hover :
                          /\ members[f.hover[k][3]][1] < members[s][1]
                          /\ members[f.hover[k][3]][1] # k})]} :
        /\ Len(f.lines) = Len(f.hover) - Cardinality(sums)
        /\ \A s \in sums : \A i \in 1..(Len(members[s]) - 1) :
              f.lines[before[s] + i] = <<f.points[members[s][i]], f.points[members[s][i + 1]]>>

\* C10: with connection lines enabled generate adds, for each sum-group of
\* n > 1 records, exactly n-1 segments, the k-th joining the group's k-th and
\* (k+1)-th records, and none for a group of one record; so the segments
\* number the records minus the distinct sums and each joins two records of
\* the same sum.
C10_PathPerGroup ==
    [][(show_lines /\ fig'.present /\ results' # results
        /\ status_var' \in {"Visualization completed successfully!",
                            "Creating visualization..."}) =>
          HasPathLines(fig')]_vars

C10_Witness ==
    /\ fig.present
    /\ fig.dims = "2D"
    /\ Len(fig.hover) = 188
    /\ Len(fig.lines) = 139
    /\ \E k \in DOMAIN fig.hover : fig.hover[k][6] >= 3
    /\ status_var = "Visualization completed successfully!"

-----------------------------------------------------------------------------
(* Claims about the table and the figure across generate runs *)

\* texts typed into the sum-limit entry of line 164 in a session that
\* generates for more than one sum limit
SessionLimitTexts == {<<"8">>, <<"1", "0">>}

\* a session of the window: the sum limit and the x axis are set, generate,
\* save_csv and save_plot are run, in any order
NextSession ==
    \/ \E text \in SessionLimitTexts : SetSumLimit(text)
    \/ \E a \in AxisSettings : SetAxis(a[1], a[2])
    \/ Generate
    \/ SaveCsv
    \/ SavePlot

SpecSession == Init /\ [][NextSession]_vars

\* C11: whenever self.df and self.fig are both present they come from the
\* same generate run, the figure's points being the table's rows (so the two
\* save handlers never persist a table and a figure of different sum
\* limits); and while no table (figure) has been produced, nothing has been
\* written to the CSV (HTML) file.
C11_TableAndFigureAgree ==
    /\ (df.present /\ fig.present) => fig.hover = df.rows
    /\ ~df.present => csv_file = NoTable
    /\ ~fig.present => html_file = NoFigure

=============================================================================
